---- MODULE Spec2Model ----
(***************************************************************************)
(* Model of the moksha (cashu-rs) mint core and wallet:                    *)
(* Mint::create_invoice, Mint::mint_tokens, Mint::split, Mint::melt and    *)
(* Mint::check_used_proofs of mint/src/mint.rs, with the Lightning trait   *)
(* of mint/src/lightning.rs as collaborator; Wallet::mint_tokens,          *)
(* Wallet::split_tokens, Wallet::pay_invoice and                           *)
(* Wallet::get_proofs_for_amount of wallet/src/wallet.rs; and              *)
(* extract_response_data of wallet/src/client.rs.                          *)
(*                                                                         *)
(* A request is received (req), handled by one atomic action per handler   *)
(* and answered (Respond).  Spec runs split and melt on the full request   *)
(* sets; SpecMint runs all five mint operations; SpecConc and SpecConcMint *)
(* run two handlers step by step, one collaborator call per step;          *)
(* SpecWallet runs the wallet's selection on its localstore; SpecWalletOps *)
(* runs the wallet's operations against the answers of the mint, each call *)
(* ending at its return or at one of its suspension points; SpecSplit      *)
(* runs the wallet's split on tokens of every total up to MaxTotal;        *)
(* SpecClient runs the client's response decoding.                         *)
(*                                                                         *)
(* u64 arithmetic is modelled at a scaled width of W bits.  An overflowing *)
(* u64 operation panics in a build with overflow checks and wraps in one   *)
(* without; the handler actions choose between the two builds.             *)
(***************************************************************************)
EXTENDS Integers, Sequences, FiniteSets, TLC

VARIABLES used, req, res, inflight, retry, pending, ln_paid, issued,
          localstore, wallet_res

vars == <<used, req, res, inflight, retry, pending, ln_paid, issued,
          localstore, wallet_res>>

\* the wallet: the proofs of its LocalStore and the result of its running call
walletVars == <<localstore, wallet_res>>

\* the pending-invoice table, the Lightning backend's paid invoices and the
\* number of invoices the backend has created
issueVars == <<pending, ln_paid, issued>>

\* ------------------------------------------------------------------ bounds
\* scaled width of the u64 amounts
W == 11
\* longest proofs sequence of a request
MaxProofs == 2
\* longest outputs sequence of a request
MaxOutputs == 2
\* most invoices the Lightning backend creates
MaxInvoices == 2
\* most proofs in the wallet's localstore
MaxStore == 4
\* most proofs the localstore holds after the mint issued proofs to the wallet
MaxHeld == 2
\* largest total of the tokens the wallet is handed to split
MaxTotal == 15

\* melt divides by 1000 (mint.rs:144)
MsatPerSat == 1000

Modulus == 2^W

\* ------------------------------------------------------------ pure helpers
RECURSIVE Sum(_)
Sum(s) == IF s = <<>> THEN 0 ELSE Head(s) + Sum(Tail(s))

AmountsOf(s) == [i \in DOMAIN s |-> s[i].amount]

SeqsUpTo(S, n) == UNION {[1..k -> S] : k \in 0..n}

\* split_amount: binary decomposition, ascending from the least significant bit
RECURSIVE split_amount_from(_, _)
split_amount_from(n, bit) ==
    IF n = 0 THEN <<>>
    ELSE IF n % 2 = 1 THEN <<bit>> \o split_amount_from(n \div 2, 2 * bit)
         ELSE split_amount_from(n \div 2, 2 * bit)

split_amount(n) == split_amount_from(n, 1)

\* the denominations of the mint keyset: the keys of keyset.private_keys
Denominations == {2^i : i \in 0..(W - 1)}

\* Dhke::step2_bob(B_, k) = k * B_ ; the key is named by its denomination
step2_bob(b_, k) == <<k, b_>>

\* the signature k_amount * H(secret) a proof must carry to verify
ValidC(amount, secret) == <<amount, secret>>

ForgedC == <<0, 0>>

Verifies(p) == p.c = ValidC(p.amount, p.secret)

\* equality of two Proof records as used by Vec::contains
ProofEq(p, q) == p.secret = q.secret

\* ------------------------------------------------------------- input sets
\* two secrets: a proof of a request has the secret of a used proof or another
Secrets == {1, 2}

ProofAmounts == {1, 2^(W - 1)}

ProofUniverse ==
    {p \in [amount : ProofAmounts, secret : Secrets,
            c : {ValidC(a, s) : a \in ProofAmounts, s \in Secrets} \cup {ForgedC}] :
        p.c \in {ValidC(p.amount, p.secret), ForgedC}}

\* the handlers read the proofs of a request through get_total_amount, contains
\* and add_used_proofs, none of which depends on their order: one sequence per
\* multiset of proofs is drawn, the one in the order of ProofRank
ProofRank(p) ==
    4 * p.secret + (IF p.amount = 1 THEN 0 ELSE 2) + (IF Verifies(p) THEN 0 ELSE 1)

ProofsInputs ==
    {ps \in SeqsUpTo(ProofUniverse, MaxProofs) :
        \A i, j \in DOMAIN ps : i < j => ProofRank(ps[i]) <= ProofRank(ps[j])}

OutputAmounts == {1, 2^(W - 1)}

\* the i-th output of a request carries the blinded point i
OutputsInputs ==
    {[i \in DOMAIN a |-> [amount |-> a[i], b_ |-> i]] : a \in SeqsUpTo(OutputAmounts, MaxOutputs)}

SplitAmounts == {0, 1, 2^(W - 1)}

\* a payment request: whether it decodes, and its amount when it carries one
NoAmount == -1

Invoices ==
    {[decodes |-> FALSE, amount_msat |-> NoAmount]} \cup
    {[decodes |-> TRUE, amount_msat |-> a] : a \in {NoAmount, 0, MsatPerSat, 2 * MsatPerSat}}

NoInvoice == [decodes |-> FALSE, amount_msat |-> NoAmount]

\* the invoice_hash of a request that carries none
NoHash == 0

SplitRequests ==
    {[op |-> "split", amount |-> a, proofs |-> ps, outputs |-> os, pr |-> NoInvoice,
      hash |-> NoHash] :
        a \in SplitAmounts, ps \in ProofsInputs, os \in OutputsInputs}

MeltRequests ==
    {[op |-> "melt", amount |-> 0, proofs |-> ps, outputs |-> <<>>, pr |-> pr,
      hash |-> NoHash] :
        ps \in ProofsInputs, pr \in Invoices}

NoReq == [op |-> "none", amount |-> 0, proofs |-> <<>>, outputs |-> <<>>, pr |-> NoInvoice,
          hash |-> NoHash]

\* which collaborator call of the handler fails
Faults == {"none", "db_read", "db_write", "ln"}

\* --------------------------------------------------------------- the mint
\* Proofs::get_total_amount: the exact sum; the handlers reduce it to u64
get_total_amount(proofs) == Sum(AmountsOf(proofs))

\* Mint::get_amount: the exact sum of the signatures' amounts
get_amount(sigs) == Sum(AmountsOf(sigs))

\* a check that looks at the first proof of the request only
check_used_proofs_first(proofs, u) ==
    \E used_proof \in u : proofs # <<>> /\ ProofEq(proofs[1], used_proof)

\* a check that compares whole records instead of Proof identity
check_used_proofs_record(proofs, u) ==
    \E used_proof \in u : \E i \in DOMAIN proofs : proofs[i] = used_proof

\* Mint::check_used_proofs: TRUE when a used proof is contained in the request
check_used_proofs(proofs, u) ==
    \E used_proof \in u : \E i \in DOMAIN proofs : ProofEq(proofs[i], used_proof)

\* Database::add_used_proofs
add_used_proofs(proofs, u) == u \cup {proofs[i] : i \in DOMAIN proofs}

\* Mint::create_blinded_signatures panics on an amount without a private key
can_sign(msgs) == \A i \in DOMAIN msgs : msgs[i].amount \in Denominations

create_blinded_signatures(msgs) ==
    [i \in DOMAIN msgs |->
        [amount |-> msgs[i].amount, c_ |-> step2_bob(msgs[i].b_, msgs[i].amount)]]

Outcome(status, u, fst, snd, paid) ==
    [status |-> status, used |-> u, fst |-> fst, snd |-> snd, paid |-> paid]

\* a split that stores its proofs as the used set instead of adding them to it
split_overwrite(r, u, fault, checked) ==
    LET total       == get_total_amount(r.proofs)
        sum_proofs  == total % Modulus
        diff        == (sum_proofs + Modulus - r.amount) % Modulus
        sum_first   == Len(split_amount(diff))
        n           == Len(r.outputs)
        first_slice == SubSeq(r.outputs, 1, sum_first)
        second_slice == SubSeq(r.outputs, sum_first + 1, n)
        first_sigs  == create_blinded_signatures(first_slice)
        second_sigs == create_blinded_signatures(second_slice)
        a1          == get_amount(first_sigs)
        a2          == get_amount(second_sigs)
        overflow    == \/ total >= Modulus
                       \/ r.amount > sum_proofs
                       \/ a1 >= Modulus
                       \/ a2 >= Modulus
                       \/ (a1 % Modulus) + (a2 % Modulus) >= Modulus
        amount_first  == a1 % Modulus
        amount_second == a2 % Modulus
    IN  IF fault = "db_read" THEN Outcome("DbError", u, <<>>, <<>>, FALSE)
        ELSE IF check_used_proofs(r.proofs, u)
            THEN Outcome("ProofAlreadyUsed", u, <<>>, <<>>, FALSE)
        ELSE IF total >= Modulus /\ checked THEN Outcome("panic", u, <<>>, <<>>, FALSE)
        ELSE IF r.amount > sum_proofs /\ checked THEN Outcome("panic", u, <<>>, <<>>, FALSE)
        ELSE IF sum_first > n THEN Outcome("panic", u, <<>>, <<>>, FALSE)
        ELSE IF ~can_sign(r.outputs) THEN Outcome("panic", u, <<>>, <<>>, FALSE)
        ELSE IF overflow /\ checked THEN Outcome("panic", u, <<>>, <<>>, FALSE)
        ELSE IF sum_proofs # (amount_first + amount_second) % Modulus
            THEN Outcome("SplitAmountMismatch", u, <<>>, <<>>, FALSE)
        ELSE IF fault = "db_write" THEN Outcome("DbError", u, <<>>, <<>>, FALSE)
        ELSE Outcome("Ok", add_used_proofs(r.proofs, {}), first_sigs, second_sigs, FALSE)

\* a split that inserts its proofs before it compares the sums
split_insert_first(r, u, fault, checked) ==
    LET total       == get_total_amount(r.proofs)
        sum_proofs  == total % Modulus
        diff        == (sum_proofs + Modulus - r.amount) % Modulus
        sum_first   == Len(split_amount(diff))
        n           == Len(r.outputs)
        first_slice == SubSeq(r.outputs, 1, sum_first)
        second_slice == SubSeq(r.outputs, sum_first + 1, n)
        first_sigs  == create_blinded_signatures(first_slice)
        second_sigs == create_blinded_signatures(second_slice)
        a1          == get_amount(first_sigs)
        a2          == get_amount(second_sigs)
        overflow    == \/ total >= Modulus
                       \/ r.amount > sum_proofs
                       \/ a1 >= Modulus
                       \/ a2 >= Modulus
                       \/ (a1 % Modulus) + (a2 % Modulus) >= Modulus
        amount_first  == a1 % Modulus
        amount_second == a2 % Modulus
    IN  IF fault = "db_read" THEN Outcome("DbError", u, <<>>, <<>>, FALSE)
        ELSE IF check_used_proofs(r.proofs, u)
            THEN Outcome("ProofAlreadyUsed", u, <<>>, <<>>, FALSE)
        ELSE IF total >= Modulus /\ checked THEN Outcome("panic", u, <<>>, <<>>, FALSE)
        ELSE IF r.amount > sum_proofs /\ checked THEN Outcome("panic", u, <<>>, <<>>, FALSE)
        ELSE IF sum_first > n THEN Outcome("panic", u, <<>>, <<>>, FALSE)
        ELSE IF ~can_sign(r.outputs) THEN Outcome("panic", u, <<>>, <<>>, FALSE)
        ELSE IF overflow /\ checked THEN Outcome("panic", u, <<>>, <<>>, FALSE)
        ELSE IF sum_proofs # (amount_first + amount_second) % Modulus
            THEN Outcome("SplitAmountMismatch", add_used_proofs(r.proofs, u), <<>>, <<>>, FALSE)
        ELSE IF fault = "db_write" THEN Outcome("DbError", u, <<>>, <<>>, FALSE)
        ELSE Outcome("Ok", add_used_proofs(r.proofs, u), first_sigs, second_sigs, FALSE)

\* a split that slices the outputs at the length of split_amount(amount)
split_at_amount(r, u, fault, checked) ==
    LET total       == get_total_amount(r.proofs)
        sum_proofs  == total % Modulus
        diff        == (sum_proofs + Modulus - r.amount) % Modulus
        sum_first   == Len(split_amount(r.amount))
        n           == Len(r.outputs)
        first_slice == SubSeq(r.outputs, 1, sum_first)
        second_slice == SubSeq(r.outputs, sum_first + 1, n)
        first_sigs  == create_blinded_signatures(first_slice)
        second_sigs == create_blinded_signatures(second_slice)
        a1          == get_amount(first_sigs)
        a2          == get_amount(second_sigs)
        overflow    == \/ total >= Modulus
                       \/ r.amount > sum_proofs
                       \/ a1 >= Modulus
                       \/ a2 >= Modulus
                       \/ (a1 % Modulus) + (a2 % Modulus) >= Modulus
        amount_first  == a1 % Modulus
        amount_second == a2 % Modulus
    IN  IF fault = "db_read" THEN Outcome("DbError", u, <<>>, <<>>, FALSE)
        ELSE IF check_used_proofs(r.proofs, u)
            THEN Outcome("ProofAlreadyUsed", u, <<>>, <<>>, FALSE)
        ELSE IF total >= Modulus /\ checked THEN Outcome("panic", u, <<>>, <<>>, FALSE)
        ELSE IF r.amount > sum_proofs /\ checked THEN Outcome("panic", u, <<>>, <<>>, FALSE)
        ELSE IF sum_first > n THEN Outcome("panic", u, <<>>, <<>>, FALSE)
        ELSE IF ~can_sign(r.outputs) THEN Outcome("panic", u, <<>>, <<>>, FALSE)
        ELSE IF overflow /\ checked THEN Outcome("panic", u, <<>>, <<>>, FALSE)
        ELSE IF sum_proofs # (amount_first + amount_second) % Modulus
            THEN Outcome("SplitAmountMismatch", u, <<>>, <<>>, FALSE)
        ELSE IF fault = "db_write" THEN Outcome("DbError", u, <<>>, <<>>, FALSE)
        ELSE Outcome("Ok", add_used_proofs(r.proofs, u), first_sigs, second_sigs, FALSE)

\* Mint::split on request r with the used set u; checked = overflow checks on
split(r, u, fault, checked) ==
    LET total       == get_total_amount(r.proofs)
        sum_proofs  == total % Modulus
        diff        == (sum_proofs + Modulus - r.amount) % Modulus
        sum_first   == Len(split_amount(diff))
        n           == Len(r.outputs)
        first_slice == SubSeq(r.outputs, 1, sum_first)
        second_slice == SubSeq(r.outputs, sum_first + 1, n)
        first_sigs  == create_blinded_signatures(first_slice)
        second_sigs == create_blinded_signatures(second_slice)
        a1          == get_amount(first_sigs)
        a2          == get_amount(second_sigs)
        overflow    == \/ total >= Modulus
                       \/ r.amount > sum_proofs
                       \/ a1 >= Modulus
                       \/ a2 >= Modulus
                       \/ (a1 % Modulus) + (a2 % Modulus) >= Modulus
        amount_first  == a1 % Modulus
        amount_second == a2 % Modulus
    IN  IF fault = "db_read" THEN Outcome("DbError", u, <<>>, <<>>, FALSE)
        ELSE IF check_used_proofs(r.proofs, u)
            THEN Outcome("ProofAlreadyUsed", u, <<>>, <<>>, FALSE)
        ELSE IF total >= Modulus /\ checked THEN Outcome("panic", u, <<>>, <<>>, FALSE)
        ELSE IF r.amount > sum_proofs /\ checked THEN Outcome("panic", u, <<>>, <<>>, FALSE)
        ELSE IF sum_first > n THEN Outcome("panic", u, <<>>, <<>>, FALSE)
        ELSE IF ~can_sign(r.outputs) THEN Outcome("panic", u, <<>>, <<>>, FALSE)
        ELSE IF overflow /\ checked THEN Outcome("panic", u, <<>>, <<>>, FALSE)
        ELSE IF sum_proofs # (amount_first + amount_second) % Modulus
            THEN Outcome("SplitAmountMismatch", u, <<>>, <<>>, FALSE)
        ELSE IF fault = "db_write" THEN Outcome("DbError", u, <<>>, <<>>, FALSE)
        ELSE Outcome("Ok", add_used_proofs(r.proofs, u), first_sigs, second_sigs, FALSE)

\* a melt that takes the proofs out of the used set again when the payment fails
melt_rollback(r, u, fault, checked) ==
    LET total         == get_total_amount(r.proofs)
        proofs_amount == total % Modulus
    IN  IF ~r.pr.decodes THEN Outcome("DecodeInvoice", u, <<>>, <<>>, FALSE)
        ELSE IF total >= Modulus /\ checked THEN Outcome("panic", u, <<>>, <<>>, FALSE)
        ELSE IF fault = "db_read" THEN Outcome("DbError", u, <<>>, <<>>, FALSE)
        ELSE IF check_used_proofs(r.proofs, u)
            THEN Outcome("ProofAlreadyUsed", u, <<>>, <<>>, FALSE)
        ELSE IF r.pr.amount_msat = NoAmount THEN Outcome("panic", u, <<>>, <<>>, FALSE)
        ELSE IF r.pr.amount_msat < proofs_amount \div MsatPerSat
            THEN Outcome("InvoiceAmountTooLow", u, <<>>, <<>>, FALSE)
        ELSE IF fault = "db_write" THEN Outcome("DbError", u, <<>>, <<>>, FALSE)
        ELSE IF fault = "ln"
            THEN Outcome("PayInvoice", u, <<>>, <<>>, FALSE)
        ELSE Outcome("Ok", add_used_proofs(r.proofs, u), <<>>, <<>>, TRUE)

\* a melt that pays the invoice before it inserts the proofs
melt_pay_first(r, u, fault, checked) ==
    LET total         == get_total_amount(r.proofs)
        proofs_amount == total % Modulus
    IN  IF ~r.pr.decodes THEN Outcome("DecodeInvoice", u, <<>>, <<>>, FALSE)
        ELSE IF total >= Modulus /\ checked THEN Outcome("panic", u, <<>>, <<>>, FALSE)
        ELSE IF fault = "db_read" THEN Outcome("DbError", u, <<>>, <<>>, FALSE)
        ELSE IF check_used_proofs(r.proofs, u)
            THEN Outcome("ProofAlreadyUsed", u, <<>>, <<>>, FALSE)
        ELSE IF r.pr.amount_msat = NoAmount THEN Outcome("panic", u, <<>>, <<>>, FALSE)
        ELSE IF r.pr.amount_msat < proofs_amount \div MsatPerSat
            THEN Outcome("InvoiceAmountTooLow", u, <<>>, <<>>, FALSE)
        ELSE IF fault = "db_write" THEN Outcome("DbError", u, <<>>, <<>>, TRUE)
        ELSE IF fault = "ln"
            THEN Outcome("PayInvoice", add_used_proofs(r.proofs, u), <<>>, <<>>, FALSE)
        ELSE Outcome("Ok", add_used_proofs(r.proofs, u), <<>>, <<>>, TRUE)

\* Mint::melt on request r with the used set u
melt(r, u, fault, checked) ==
    LET total         == get_total_amount(r.proofs)
        proofs_amount == total % Modulus
    IN  IF ~r.pr.decodes THEN Outcome("DecodeInvoice", u, <<>>, <<>>, FALSE)
        ELSE IF total >= Modulus /\ checked THEN Outcome("panic", u, <<>>, <<>>, FALSE)
        ELSE IF fault = "db_read" THEN Outcome("DbError", u, <<>>, <<>>, FALSE)
        ELSE IF check_used_proofs(r.proofs, u)
            THEN Outcome("ProofAlreadyUsed", u, <<>>, <<>>, FALSE)
        ELSE IF r.pr.amount_msat = NoAmount THEN Outcome("panic", u, <<>>, <<>>, FALSE)
        ELSE IF r.pr.amount_msat < proofs_amount \div MsatPerSat
            THEN Outcome("InvoiceAmountTooLow", u, <<>>, <<>>, FALSE)
        ELSE IF fault = "db_write" THEN Outcome("DbError", u, <<>>, <<>>, FALSE)
        ELSE IF fault = "ln"
            THEN Outcome("PayInvoice", add_used_proofs(r.proofs, u), <<>>, <<>>, FALSE)
        ELSE Outcome("Ok", add_used_proofs(r.proofs, u), <<>>, <<>>, TRUE)

\* ------------------------------------------------------------ state machine
\* a response: split fills fst and snd, melt fills paid, mint_tokens fills fst,
\* create_invoice fills key and payment_request
NoRes == [status |-> "none", fst |-> <<>>, snd |-> <<>>, paid |-> FALSE,
          key |-> NoHash, payment_request |-> NoHash]

\* the wallet has no call running
NoWalletRes == [op |-> "none", amount |-> 0, status |-> "none", proofs |-> <<>>]

Idle == [pc |-> "idle", r |-> NoReq, status |-> "none"]

Procs == {1, 2}

Init ==
    /\ used = {}
    /\ req = NoReq
    /\ res = NoRes
    /\ inflight = [p \in Procs |-> Idle]
    /\ retry = FALSE
    /\ pending = {}
    /\ ln_paid = {}
    /\ issued = 0
    /\ localstore = <<>>
    /\ wallet_res = NoWalletRes

\* a split request arrives at the mint
ReceiveSplit ==
    /\ req = NoReq
    /\ \E r \in SplitRequests : req' = r
    /\ res' = NoRes
    /\ UNCHANGED <<used, inflight, retry, issueVars, walletVars>>

\* a melt request arrives at the mint
ReceiveMelt ==
    /\ req = NoReq
    /\ \E r \in MeltRequests : req' = r
    /\ res' = NoRes
    /\ UNCHANGED <<used, inflight, retry, issueVars, walletVars>>

Handle(o) ==
    /\ used' = o.used
    /\ res' = [status |-> o.status, fst |-> o.fst, snd |-> o.snd, paid |-> o.paid,
               key |-> NoHash, payment_request |-> NoHash]
    /\ UNCHANGED <<req, inflight, retry, issueVars, walletVars>>

\* Mint::split runs on the received request
Split ==
    /\ req.op = "split"
    /\ res = NoRes
    /\ \E fault \in Faults \ {"ln"}, checked \in BOOLEAN :
          Handle(split(req, used, fault, checked))

\* a melt that reached pay_invoice with an overflowing proof sum ran in a build
\* without overflow checks; the same mint runs its retry
SameBuild(r, checked) == get_total_amount(r.proofs) >= Modulus => ~checked

\* Mint::melt runs on the received request
Melt ==
    /\ req.op = "melt"
    /\ res = NoRes
    /\ \E fault \in Faults, checked \in BOOLEAN :
          /\ retry => SameBuild(req, checked)
          /\ Handle(melt(req, used, fault, checked))

\* the response is sent and the request is dropped
Respond ==
    /\ res # NoRes
    /\ req' = NoReq
    /\ res' = NoRes
    /\ retry' = FALSE
    /\ UNCHANGED <<used, inflight, issueVars, walletVars>>

\* the caller of a melt whose pay_invoice failed sends the same melt again
RetryMelt ==
    /\ req.op = "melt"
    /\ res.status = "PayInvoice"
    /\ res' = NoRes
    /\ retry' = TRUE
    /\ UNCHANGED <<used, req, inflight, issueVars, walletVars>>

Next == ReceiveSplit \/ ReceiveMelt \/ Split \/ Melt \/ Respond \/ RetryMelt

Spec == Init /\ [][Next]_vars

\* ------------------------------------------------- concurrent specification
\* requests of the concurrent runs: genuine proofs, accepted when run alone
GenuineProofs == {p \in ProofUniverse : Verifies(p)}

ConcRequests ==
    {r \in SplitRequests \cup MeltRequests :
        /\ \A i \in DOMAIN r.proofs : r.proofs[i] \in GenuineProofs
        /\ r.proofs # <<>>
        /\ IF r.op = "split" THEN split(r, {}, "none", TRUE).status = "Ok"
                             ELSE melt(r, {}, "none", TRUE).status = "Ok"}

\* process p takes up a request
Start(p) ==
    /\ inflight[p].pc = "idle"
    /\ \E r \in ConcRequests :
          inflight' = [inflight EXCEPT ![p] = [pc |-> "check", r |-> r, status |-> "none"]]
    /\ UNCHANGED <<used, req, res, retry, issueVars, walletVars>>

\* the handler up to its add_used_proofs call: get_used_proofs is one database
\* call, everything else up to the insert is local to the request
CheckUsed(p) ==
    /\ inflight[p].pc = "check"
    /\ \E fault \in {"none", "db_read"}, checked \in BOOLEAN :
          LET r == inflight[p].r
              o == IF r.op = "split" THEN split(r, used, fault, checked)
                                     ELSE melt(r, used, fault, checked)
          IN  inflight' = [inflight EXCEPT ![p] =
                  IF o.status = "Ok" THEN [pc |-> "add", r |-> r, status |-> "none"]
                                     ELSE [pc |-> "done", r |-> r, status |-> o.status]]
    /\ UNCHANGED <<used, req, res, retry, issueVars, walletVars>>

\* the add_used_proofs call; split returns after it, melt goes on to pay
AddUsed(p) ==
    /\ inflight[p].pc = "add"
    /\ \E fault \in {"none", "db_write"} :
          LET r == inflight[p].r
          IN  IF fault = "db_write"
              THEN /\ inflight' = [inflight EXCEPT ![p] =
                          [pc |-> "done", r |-> r, status |-> "DbError"]]
                   /\ used' = used
              ELSE /\ used' = add_used_proofs(r.proofs, used)
                   /\ inflight' = [inflight EXCEPT ![p] =
                          IF r.op = "split" THEN [pc |-> "done", r |-> r, status |-> "Ok"]
                                            ELSE [pc |-> "pay", r |-> r, status |-> "none"]]
    /\ UNCHANGED <<req, res, retry, issueVars, walletVars>>

\* melt's Lightning pay_invoice call
Pay(p) ==
    /\ inflight[p].pc = "pay"
    /\ \E fault \in {"none", "ln"} :
          inflight' = [inflight EXCEPT ![p] =
              [pc |-> "done", r |-> inflight[p].r,
               status |-> IF fault = "ln" THEN "PayInvoice" ELSE "Ok"]]
    /\ UNCHANGED <<used, req, res, retry, issueVars, walletVars>>

NextConc == \E p \in Procs : Start(p) \/ CheckUsed(p) \/ AddUsed(p) \/ Pay(p)

SpecConc == Init /\ [][NextConc]_vars

\* ------------------------------------------------- issuance specification
\* amounts of the invoices asked for
InvoiceAmounts == {1, 2}

\* the keys crypto::generate_hash can return; the n-th invoice gets the key n
Hashes == 1 .. MaxInvoices

\* amounts of the outputs of these requests; 3 is no denomination of the keyset
MintOutputAmounts == {1, 3}

MintOutputsInputs ==
    {[i \in DOMAIN a |-> [amount |-> a[i], b_ |-> i]] :
        a \in SeqsUpTo(MintOutputAmounts, MaxOutputs)}

CreateInvoiceRequests ==
    {[op |-> "create_invoice", amount |-> a, proofs |-> <<>>, outputs |-> <<>>,
      pr |-> NoInvoice, hash |-> NoHash] : a \in InvoiceAmounts}

MintRequests ==
    {[op |-> "mint_tokens", amount |-> 0, proofs |-> <<>>, outputs |-> os,
      pr |-> NoInvoice, hash |-> h] : h \in Hashes, os \in MintOutputsInputs}

\* split, melt and check_used_proofs requests with at most one, genuine, proof
SpendProofs == SeqsUpTo(GenuineProofs, 1)

SpendRequests ==
    {[op |-> "split", amount |-> a, proofs |-> ps, outputs |-> os, pr |-> NoInvoice,
      hash |-> NoHash] : a \in {0, 1}, ps \in SpendProofs, os \in MintOutputsInputs}
    \cup
    {[op |-> "melt", amount |-> 0, proofs |-> ps, outputs |-> <<>>, pr |-> pr,
      hash |-> NoHash] : ps \in SpendProofs, pr \in Invoices}
    \cup
    {[op |-> "check_used_proofs", amount |-> 0, proofs |-> ps, outputs |-> <<>>,
      pr |-> NoInvoice, hash |-> NoHash] : ps \in SpendProofs}

\* model::Invoice::new
Invoice(amount, payment_request) == [amount |-> amount, payment_request |-> payment_request]

\* the keys of the pending-invoice table
PendingKeys(pend) == {e.key : e \in pend}

\* Database::get_pending_invoice of a key of the table
get_pending_invoice(key, pend) == (CHOOSE e \in pend : e.key = key).invoice

\* Database::add_pending_invoice
add_pending_invoice(key, invoice, pend) ==
    {e \in pend : e.key # key} \cup {[key |-> key, invoice |-> invoice]}

\* Database::remove_pending_invoice; removing an absent key changes nothing
remove_pending_invoice(key, pend) == {e \in pend : e.key # key}

IssueOutcome(status, pend, sigs, key, payment_request) ==
    [status |-> status, pending |-> pend, sigs |-> sigs, key |-> key,
     payment_request |-> payment_request]

\* a create_invoice that writes the pending record before it asks the backend
create_invoice_early(amount, pend, payment_request, key, fault, unwinds) ==
    IF fault = "ln"
    THEN IssueOutcome(IF unwinds THEN "panic" ELSE "LightningError",
                      add_pending_invoice(key, Invoice(amount, payment_request), pend),
                      <<>>, NoHash, NoHash)
    ELSE IF fault = "db_write"
        THEN IssueOutcome("DbError", pend, <<>>, NoHash, NoHash)
    ELSE IssueOutcome("Ok", add_pending_invoice(key, Invoice(amount, payment_request), pend),
                      <<>>, key, payment_request)

\* Mint::create_invoice; payment_request is what the backend returns and key
\* what generate_hash returns.  A failing backend returns Err in
\* lightning.rs (54-66), while mint.rs:54 reads the call's value without `?`
\* and leaves a failure no way out but unwinding: both are outcomes.
create_invoice(amount, pend, payment_request, key, fault, unwinds) ==
    IF fault = "ln"
    THEN IssueOutcome(IF unwinds THEN "panic" ELSE "LightningError", pend, <<>>, NoHash, NoHash)
    ELSE IF fault = "db_write"
        THEN IssueOutcome("DbError", pend, <<>>, NoHash, NoHash)
    ELSE IssueOutcome("Ok", add_pending_invoice(key, Invoice(amount, payment_request), pend),
                      <<>>, key, payment_request)

\* a mint_tokens that signs and leaves the pending record in place
mint_tokens_keep(r, pend, paid_invoices, fault) ==
    IF fault = "db_read" THEN IssueOutcome("DbError", pend, <<>>, NoHash, NoHash)
    ELSE IF r.hash \notin PendingKeys(pend)
        THEN IssueOutcome("InvoiceNotFound", pend, <<>>, NoHash, NoHash)
    ELSE IF fault = "ln" THEN IssueOutcome("LightningError", pend, <<>>, NoHash, NoHash)
    ELSE IF get_pending_invoice(r.hash, pend).payment_request \notin paid_invoices
        THEN IssueOutcome("Ok", pend, <<>>, NoHash, NoHash)
    ELSE IF fault = "db_write" THEN IssueOutcome("DbError", pend, <<>>, NoHash, NoHash)
    ELSE IF ~can_sign(r.outputs)
        THEN IssueOutcome("panic", pend, <<>>, NoHash, NoHash)
    ELSE IssueOutcome("Ok", pend, create_blinded_signatures(r.outputs), NoHash, NoHash)

\* a mint_tokens that removes the pending record before it asks for the status
mint_tokens_eager(r, pend, paid_invoices, fault) ==
    IF fault = "db_read" THEN IssueOutcome("DbError", pend, <<>>, NoHash, NoHash)
    ELSE IF r.hash \notin PendingKeys(pend)
        THEN IssueOutcome("InvoiceNotFound", pend, <<>>, NoHash, NoHash)
    ELSE IF fault = "db_write" THEN IssueOutcome("DbError", pend, <<>>, NoHash, NoHash)
    ELSE IF fault = "ln"
        THEN IssueOutcome("LightningError", remove_pending_invoice(r.hash, pend),
                          <<>>, NoHash, NoHash)
    ELSE IF get_pending_invoice(r.hash, pend).payment_request \notin paid_invoices
        THEN IssueOutcome("Ok", remove_pending_invoice(r.hash, pend), <<>>, NoHash, NoHash)
    ELSE IF ~can_sign(r.outputs)
        THEN IssueOutcome("panic", remove_pending_invoice(r.hash, pend), <<>>, NoHash, NoHash)
    ELSE IssueOutcome("Ok", remove_pending_invoice(r.hash, pend),
                      create_blinded_signatures(r.outputs), NoHash, NoHash)

\* Mint::mint_tokens on request r with the pending table pend and the invoices
\* the backend holds as paid
mint_tokens(r, pend, paid_invoices, fault) ==
    IF fault = "db_read" THEN IssueOutcome("DbError", pend, <<>>, NoHash, NoHash)
    ELSE IF r.hash \notin PendingKeys(pend)
        THEN IssueOutcome("InvoiceNotFound", pend, <<>>, NoHash, NoHash)
    ELSE IF fault = "ln" THEN IssueOutcome("LightningError", pend, <<>>, NoHash, NoHash)
    ELSE IF get_pending_invoice(r.hash, pend).payment_request \notin paid_invoices
        THEN IssueOutcome("Ok", pend, <<>>, NoHash, NoHash)
    ELSE IF fault = "db_write" THEN IssueOutcome("DbError", pend, <<>>, NoHash, NoHash)
    ELSE IF ~can_sign(r.outputs)
        THEN IssueOutcome("panic", remove_pending_invoice(r.hash, pend), <<>>, NoHash, NoHash)
    ELSE IssueOutcome("Ok", remove_pending_invoice(r.hash, pend),
                      create_blinded_signatures(r.outputs), NoHash, NoHash)

\* a create_invoice request arrives at the mint
ReceiveCreateInvoice ==
    /\ req = NoReq
    /\ issued < MaxInvoices
    /\ \E r \in CreateInvoiceRequests : req' = r
    /\ res' = NoRes
    /\ UNCHANGED <<used, inflight, retry, issueVars, walletVars>>

\* a mint_tokens request arrives at the mint
ReceiveMintTokens ==
    /\ req = NoReq
    /\ \E r \in MintRequests : req' = r
    /\ res' = NoRes
    /\ UNCHANGED <<used, inflight, retry, issueVars, walletVars>>

\* a split, melt or check_used_proofs request arrives at the mint
ReceiveSpend ==
    /\ req = NoReq
    /\ \E r \in SpendRequests : req' = r
    /\ res' = NoRes
    /\ UNCHANGED <<used, inflight, retry, issueVars, walletVars>>

HandleIssue(o) ==
    /\ pending' = o.pending
    /\ res' = [status |-> o.status, fst |-> o.sigs, snd |-> <<>>, paid |-> FALSE,
               key |-> o.key, payment_request |-> o.payment_request]
    /\ UNCHANGED <<used, req, inflight, retry, ln_paid, walletVars>>

\* Mint::create_invoice runs on the received request; the backend's invoice
\* exists from the moment its create_invoice call succeeded
CreateInvoice ==
    /\ req.op = "create_invoice"
    /\ res = NoRes
    /\ \E fault \in {"none", "ln", "db_write"}, unwinds \in BOOLEAN :
          /\ HandleIssue(create_invoice(req.amount, pending, issued + 1, issued + 1,
                                        fault, unwinds))
          /\ issued' = IF fault = "ln" THEN issued ELSE issued + 1

\* Mint::mint_tokens runs on the received request
MintTokens ==
    /\ req.op = "mint_tokens"
    /\ res = NoRes
    /\ \E fault \in Faults : HandleIssue(mint_tokens(req, pending, ln_paid, fault))
    /\ issued' = issued

\* Mint::check_used_proofs runs on the received request
CheckUsedProofs ==
    /\ req.op = "check_used_proofs"
    /\ res = NoRes
    /\ \E fault \in {"none", "db_read"} :
          res' = [NoRes EXCEPT !.status =
                      IF fault = "db_read" THEN "DbError"
                      ELSE IF check_used_proofs(req.proofs, used) THEN "ProofAlreadyUsed"
                      ELSE "Ok"]
    /\ UNCHANGED <<used, req, inflight, retry, issueVars, walletVars>>

\* the payer settles an invoice the backend created
InvoicePaid ==
    /\ \E payment_request \in (1 .. issued) \ ln_paid :
          ln_paid' = ln_paid \cup {payment_request}
    /\ UNCHANGED <<used, req, res, inflight, retry, pending, issued, walletVars>>

NextMint ==
    \/ ReceiveCreateInvoice \/ ReceiveMintTokens \/ ReceiveSpend
    \/ CreateInvoice \/ MintTokens \/ CheckUsedProofs \/ Split \/ Melt
    \/ InvoicePaid \/ Respond

SpecMint == Init /\ [][NextMint]_vars

\* ---------------------------------------- concurrent issuance specification
\* mint_tokens requests of the concurrent runs: one output the keyset can sign
ConcMintRequests == {r \in MintRequests : Len(r.outputs) = 1 /\ can_sign(r.outputs)}

Minting(pc, r, status, invoice, sigs) ==
    [pc |-> pc, r |-> r, status |-> status, invoice |-> invoice, sigs |-> sigs]

NoPendingInvoice == Invoice(0, NoHash)

\* process p takes up a mint_tokens request
StartMint(p) ==
    /\ inflight[p].pc = "idle"
    /\ \E r \in ConcMintRequests :
          inflight' = [inflight EXCEPT ![p] = Minting("get", r, "none", NoPendingInvoice, <<>>)]
    /\ UNCHANGED <<used, req, res, retry, issueVars, walletVars>>

\* the get_pending_invoice call
GetPending(p) ==
    /\ inflight[p].pc = "get"
    /\ \E fault \in {"none", "db_read"} :
          LET r == inflight[p].r
          IN  inflight' = [inflight EXCEPT ![p] =
                  IF fault = "db_read"
                  THEN Minting("done", r, "DbError", NoPendingInvoice, <<>>)
                  ELSE IF r.hash \notin PendingKeys(pending)
                  THEN Minting("done", r, "InvoiceNotFound", NoPendingInvoice, <<>>)
                  ELSE Minting("status", r, "none", get_pending_invoice(r.hash, pending), <<>>)]
    /\ UNCHANGED <<used, req, res, retry, issueVars, walletVars>>

\* the is_invoice_paid call on the payment request of the invoice found
IsInvoicePaid(p) ==
    /\ inflight[p].pc = "status"
    /\ \E fault \in {"none", "ln"} :
          LET r == inflight[p].r
              invoice == inflight[p].invoice
          IN  inflight' = [inflight EXCEPT ![p] =
                  IF fault = "ln" THEN Minting("done", r, "LightningError", invoice, <<>>)
                  ELSE IF invoice.payment_request \notin ln_paid
                  THEN Minting("done", r, "Ok", invoice, <<>>)
                  ELSE Minting("remove", r, "none", invoice, <<>>)]
    /\ UNCHANGED <<used, req, res, retry, issueVars, walletVars>>

\* the remove_pending_invoice call, and the signing that follows it
RemovePending(p) ==
    /\ inflight[p].pc = "remove"
    /\ \E fault \in {"none", "db_write"} :
          LET r == inflight[p].r
              invoice == inflight[p].invoice
          IN  IF fault = "db_write"
              THEN /\ inflight' = [inflight EXCEPT ![p] =
                          Minting("done", r, "DbError", invoice, <<>>)]
                   /\ pending' = pending
              ELSE /\ pending' = remove_pending_invoice(r.hash, pending)
                   /\ inflight' = [inflight EXCEPT ![p] =
                          Minting("done", r, "Ok", invoice, create_blinded_signatures(r.outputs))]
    /\ UNCHANGED <<used, req, res, retry, ln_paid, issued, walletVars>>

NextConcMint ==
    \/ ReceiveCreateInvoice \/ CreateInvoice \/ Respond \/ InvoicePaid
    \/ \E p \in Procs : StartMint(p) \/ GetPending(p) \/ IsInvoicePaid(p) \/ RemovePending(p)

SpecConcMint == Init /\ [][NextConcMint]_vars

\* --------------------------------------------------- wallet specification
\* amounts of the proofs the wallet holds (the fixture of the wallet's tests),
\* and the amounts it is asked to select; the balance stays below 2^W
WalletAmounts == {4, 8, 16, 32}

SelectAmounts == {0, 4, 10, 33, 60, 61}

\* Proofs::total_amount
total_amount(proofs) == Sum(AmountsOf(proofs))

\* the place of proof p in the ascending sequence sorted: behind every proof
\* whose amount is not larger (the sort is stable)
RECURSIVE insert_sorted(_, _)
insert_sorted(p, sorted) ==
    IF sorted = <<>> THEN <<p>>
    ELSE IF sorted[Len(sorted)].amount <= p.amount THEN Append(sorted, p)
    ELSE Append(insert_sorted(p, SubSeq(sorted, 1, Len(sorted) - 1)), sorted[Len(sorted)])

RECURSIVE sort_from(_, _)
sort_from(proofs, sorted) ==
    IF proofs = <<>> THEN sorted
    ELSE sort_from(Tail(proofs), insert_sorted(Head(proofs), sorted))

\* a sort that puts the largest amounts first
sort_by_amount_descending(proofs) ==
    LET ascending == sort_from(proofs, <<>>)
    IN  [i \in DOMAIN ascending |-> ascending[Len(ascending) + 1 - i]]

\* all_proofs.sort_by(|a, b| a.amount.cmp(&b.amount))
sort_by_amount(proofs) == sort_from(proofs, <<>>)

\* the while loop of get_proofs_for_amount: pop from the end until the
\* running sum reaches the amount or nothing is left
RECURSIVE select_proofs(_, _, _, _)
select_proofs(all_proofs, selected_proofs, selected_amount, amount) ==
    IF selected_amount < amount /\ all_proofs # <<>>
    THEN LET proof == all_proofs[Len(all_proofs)]
         IN  select_proofs(SubSeq(all_proofs, 1, Len(all_proofs) - 1),
                           Append(selected_proofs, proof),
                           (selected_amount + proof.amount) % Modulus, amount)
    ELSE selected_proofs

WalletOutcome(op, amount, status, proofs) ==
    [op |-> op, amount |-> amount, status |-> status, proofs |-> proofs]

\* a selection that hands out what there is when the balance is too low
get_proofs_for_amount_unchecked(amount, store, fault) ==
    IF fault = "db_read"
    THEN WalletOutcome("get_proofs_for_amount", amount, "LocalStoreError", <<>>)
    ELSE WalletOutcome("get_proofs_for_amount", amount, "Ok",
                       select_proofs(sort_by_amount(store), <<>>, 0, amount))

\* Wallet::get_proofs_for_amount on the proofs of the localstore
get_proofs_for_amount(amount, store, fault) ==
    IF fault = "db_read"
    THEN WalletOutcome("get_proofs_for_amount", amount, "LocalStoreError", <<>>)
    ELSE IF amount > total_amount(store)
    THEN WalletOutcome("get_proofs_for_amount", amount, "NotEnoughTokens", <<>>)
    ELSE WalletOutcome("get_proofs_for_amount", amount, "Ok",
                       select_proofs(sort_by_amount(store), <<>>, 0, amount))

\* LocalStore::add_proofs, as the wallet calls it with a proof it obtained
StoreProofs ==
    /\ wallet_res = NoWalletRes
    /\ Len(localstore) < MaxStore
    /\ \E a \in WalletAmounts :
          localstore' = Append(localstore, [amount |-> a, secret |-> Len(localstore) + 1])
    /\ UNCHANGED <<used, req, res, inflight, retry, issueVars, wallet_res>>

\* Wallet::get_proofs_for_amount is called and returns
GetProofsForAmount ==
    /\ wallet_res = NoWalletRes
    /\ \E amount \in SelectAmounts, fault \in {"none", "db_read"} :
          wallet_res' = get_proofs_for_amount(amount, localstore, fault)
    /\ UNCHANGED <<used, req, res, inflight, retry, issueVars, localstore>>

\* the caller has taken the result
WalletReturn ==
    /\ wallet_res # NoWalletRes
    /\ wallet_res' = NoWalletRes
    /\ UNCHANGED <<used, req, res, inflight, retry, issueVars, localstore>>

NextWallet == StoreProofs \/ GetProofsForAmount \/ WalletReturn

SpecWallet == Init /\ [][NextWallet]_vars

\* --------------------------------------------------- client specification
\* the HTTP responses the wallet's client is handed
StatusCodes == {200, 400, 500}

NoHeader == "none"

ContentTypes == {NoHeader, "application/json", "text/plain"}

NotPaidYet == "Lightning invoice not paid yet."

\* a body is the JSON of the expected type T ("data"), the JSON of an error
\* record {code, error} ("error"), JSON of some other shape ("json"), or
\* no JSON at all ("text")
Bodies ==
    {[kind |-> k, code |-> 0, error |-> ""] : k \in {"data", "json", "text"}}
    \cup
    {[kind |-> "error", code |-> c, error |-> e] :
        c \in {0, 1}, e \in {NotPaidYet, "Lightning invoice not paid yet", "Proof already used"}}

Responses ==
    {[status |-> st, content_type |-> ct, body |-> b] :
        st \in StatusCodes, ct \in ContentTypes, b \in Bodies}

ClientOutcome(response, status, code, error) ==
    [op |-> "extract_response_data", response |-> response, status |-> status,
     code |-> code, error |-> error]

\* client::extract_response_data; text_fails = reading the body fails
extract_response_data(response, text_fails) ==
    LET body == response.body
    IN  IF text_fails THEN ClientOutcome(response, "ReqwestError", 0, "")
        ELSE IF response.status = 200
        THEN IF body.kind = "data" THEN ClientOutcome(response, "Ok", 0, "")
             ELSE ClientOutcome(response, "UnexpectedResponse", 0, "")
        ELSE IF response.content_type = NoHeader
        THEN ClientOutcome(response, "UnexpectedResponse", 0, "")
        ELSE IF response.content_type = "application/json"
        THEN IF body.kind # "error" THEN ClientOutcome(response, "panic", 0, "")
             ELSE IF body.error = NotPaidYet
             THEN ClientOutcome(response, "InvoiceNotPaidYet", body.code, body.error)
             ELSE ClientOutcome(response, "MintError", 0, body.error)
        ELSE ClientOutcome(response, "UnexpectedResponse", 0, "")

\* the client is handed the mint's response and turns it into its result
ExtractResponseData ==
    /\ wallet_res = NoWalletRes
    /\ \E response \in Responses, text_fails \in BOOLEAN :
          wallet_res' = extract_response_data(response, text_fails)
    /\ UNCHANGED <<used, req, res, inflight, retry, issueVars, localstore>>

NextClient == ExtractResponseData \/ WalletReturn

SpecClient == Init /\ [][NextClient]_vars

\* ---------------------------------------- wallet operations specification
\* the mint the wallet is configured with
MintUrl == "http://localhost:8080"

\* amounts the wallet asks the mint to issue
WalletMintAmounts == {1, 3, 4}

\* msat fees of the mint's fee quote
FeesMsat == {0, MsatPerSat}

\* where an operation ends early: the awaited call fails, or the caller drops
\* the future while it waits there
StopHow == {"fails", "dropped"}

NoStop == [at |-> "none", how |-> "none"]

Stops(points) == {NoStop} \cup {[at |-> p, how |-> h] : p \in points, h \in StopHow}

StopStatus(stop, error) == IF stop.how = "dropped" THEN "Dropped" ELSE error

SecretsOf(proofs) == {proofs[i].secret : i \in DOMAIN proofs}

\* Wallet::create_secrets: n random strings, secrets no proof at hand carries; the
\* draws are named by the smallest unused numbers
RECURSIVE fresh_from(_, _, _)
fresh_from(k, n, taken) ==
    IF n = 0 THEN <<>>
    ELSE IF k \in taken THEN fresh_from(k + 1, n, taken)
    ELSE <<k>> \o fresh_from(k + 1, n - 1, taken)

create_secrets(n, taken) == fresh_from(1, n, taken)

\* Dhke::step1_alice: the blinded point of a secret and the blinding factor
\* drawn for it; the draw is named by the secret it was made for
step1_alice(secret) == [b_ |-> <<secret, secret>>, r |-> secret]

\* Dhke::step3_alice: removes the blinding factor from a signature; the
\* result is the mint's signature of the secret iff the signature was made
\* with this key on the point this blinding factor belongs to
step3_alice(c_, r, key) ==
    IF c_[1] = key /\ c_[2][2] = r THEN ValidC(key, c_[2][1]) ELSE ForgedC

\* Proof::new
Proof(amount, secret, c) == [amount |-> amount, secret |-> secret, c |-> c]

\* TokenV3 from (mint url, proofs): one entry
TokenV3(mint, proofs) == <<[mint |-> mint, proofs |-> proofs]>>

\* TokenV3::proofs
RECURSIVE token_proofs(_)
token_proofs(token) ==
    IF token = <<>> THEN <<>> ELSE Head(token).proofs \o token_proofs(Tail(token))

\* TokenV3::total_amount
token_total_amount(token) == total_amount(token_proofs(token))

\* Wallet::create_blinded_messages: one (BlindedMessage, SecretKey) pair per
\* amount of split_amount, zipped with the secrets
create_blinded_messages(amount, secrets) ==
    LET amounts == split_amount(amount)
        n       == IF Len(amounts) < Len(secrets) THEN Len(amounts) ELSE Len(secrets)
    IN  [i \in 1..n |-> [msg |-> [amount |-> amounts[i], b_ |-> step1_alice(secrets[i]).b_],
                         key |-> step1_alice(secrets[i]).r]]

\* the BlindedMessages of the pairs
get_blinded_msg(outputs) == [i \in DOMAIN outputs |-> outputs[i].msg]

\* an unblinding that pairs the signatures with the secrets and blinding
\* factors in reverse order
create_proofs_from_blinded_signatures_reversed(signatures, secrets, outputs) ==
    LET m == IF Len(signatures) < Len(outputs) THEN Len(signatures) ELSE Len(outputs)
        n == IF m < Len(secrets) THEN m ELSE Len(secrets)
    IN  [i \in 1..n |->
            Proof(signatures[i].amount, secrets[n + 1 - i],
                  step3_alice(signatures[i].c_, outputs[n + 1 - i].key, signatures[i].amount))]

\* Wallet::create_proofs_from_blinded_signatures: signatures, blinding
\* factors and secrets zipped position by position
create_proofs_from_blinded_signatures(signatures, secrets, outputs) ==
    LET m == IF Len(signatures) < Len(outputs) THEN Len(signatures) ELSE Len(outputs)
        n == IF m < Len(secrets) THEN m ELSE Len(secrets)
    IN  [i \in 1..n |->
            Proof(signatures[i].amount, secrets[i],
                  step3_alice(signatures[i].c_, outputs[i].key, signatures[i].amount))]

\* LocalStore::add_proofs
add_proofs(proofs, store) == store \o proofs

\* LocalStore::delete_proofs
delete_proofs(proofs, store) ==
    SelectSeq(store, LAMBDA p : \A i \in DOMAIN proofs : proofs[i] # p)

\* the result of a wallet operation: the localstore before and after, the
\* requests sent to the mint, and what the operation returns
WalletOp(op, arg, amount, status, before, store, sent, selected, outputs, first, second, paid) ==
    [op |-> op, arg |-> arg, amount |-> amount, status |-> status, before |-> before,
     store |-> store,
     sent |-> sent, selected |-> selected, outputs |-> outputs, first |-> first,
     second |-> second, paid |-> paid]

\* Wallet::mint_tokens(amount, hash). The mint answers as Mint::mint_tokens
\* does for the pending invoice of this hash, paid or not yet
wallet_mint_tokens(amount, hash, store, invoice_paid, fault, stop) ==
    LET split_amount_ == split_amount(amount)
        secrets  == create_secrets(Len(split_amount_), SecretsOf(store))
        outputs  == create_blinded_messages(amount, secrets)
        request  == [op |-> "mint_tokens", amount |-> 0, proofs |-> <<>>,
                     outputs |-> get_blinded_msg(outputs), pr |-> NoInvoice, hash |-> hash]
        post_mint_resp ==
            mint_tokens(request, {[key |-> hash, invoice |-> Invoice(amount, hash)]},
                        IF invoice_paid THEN {hash} ELSE {}, fault)
        proofs   == create_proofs_from_blinded_signatures(post_mint_resp.sigs, secrets, outputs)
        tokens   == TokenV3(MintUrl, proofs)
        Result(status, after, token) ==
            WalletOp("mint_tokens", hash, amount, status, store, after, <<"mint">>, <<>>,
                     get_blinded_msg(outputs), token, <<>>, FALSE)
    IN  IF stop.at = "post_mint" THEN Result(StopStatus(stop, "ReqwestError"), store, <<>>)
        ELSE IF post_mint_resp.status # "Ok" THEN Result("MintError", store, <<>>)
        ELSE IF stop.at = "add_proofs"
            THEN Result(StopStatus(stop, "LocalStoreError"), store, <<>>)
        ELSE Result("Ok", add_proofs(token_proofs(tokens), store), tokens)

\* Wallet::mint_tokens is called and returns
WalletMintTokens ==
    /\ wallet_res = NoWalletRes
    /\ \E amount \in WalletMintAmounts, hash \in Hashes, invoice_paid \in BOOLEAN,
          fault \in Faults,
          stop \in Stops({"post_mint", "add_proofs"}) :
          /\ Len(localstore) + Len(split_amount(amount)) <= MaxHeld
          /\ wallet_res' = wallet_mint_tokens(amount, hash, localstore, invoice_paid,
                                              fault, stop)
          /\ localstore' = wallet_res'.store
    /\ UNCHANGED <<used, req, res, inflight, retry, issueVars>>

\* Wallet::split_tokens(tokens, splt_amount). The mint answers as Mint::split
\* does for proofs it has not seen before
split_tokens(tokens, splt_amount, store, fault, stop, checked) ==
    LET total_token_amount == token_total_amount(tokens)
        proofs         == token_proofs(tokens)
        taken          == SecretsOf(store) \cup SecretsOf(proofs)
        first_amount   == (total_token_amount + Modulus - splt_amount) % Modulus
        first_secrets  == create_secrets(Len(split_amount(first_amount)), taken)
        first_outputs  == create_blinded_messages(first_amount, first_secrets)
        second_secrets == create_secrets(Len(split_amount(splt_amount)),
                              taken \cup {first_secrets[i] : i \in DOMAIN first_secrets})
        second_outputs == create_blinded_messages(splt_amount, second_secrets)
        total_outputs  == get_blinded_msg(first_outputs \o second_outputs)
        request        == [op |-> "split", amount |-> splt_amount, proofs |-> proofs,
                           outputs |-> total_outputs, pr |-> NoInvoice, hash |-> NoHash]
        split_result   == split(request, {}, fault, checked)
        first_tokens   == TokenV3(MintUrl,
                              create_proofs_from_blinded_signatures(
                                  split_result.fst, first_secrets, first_outputs))
        second_tokens  == TokenV3(MintUrl,
                              create_proofs_from_blinded_signatures(
                                  split_result.snd, second_secrets, second_outputs))
        Result(status, sent, outputs, first, second) ==
            WalletOp("split_tokens", tokens, splt_amount, status, store, store, sent, proofs,
                     outputs, first, second, FALSE)
    IN  IF checked /\ splt_amount > total_token_amount
            THEN Result("panic", <<>>, <<>>, <<>>, <<>>)
        ELSE IF total_token_amount % Modulus # total_amount(total_outputs) % Modulus
            THEN Result("InvalidProofs", <<>>, <<>>, <<>>, <<>>)
        ELSE IF stop.at = "post_split"
            THEN Result(StopStatus(stop, "ReqwestError"), <<"split">>, total_outputs, <<>>, <<>>)
        ELSE IF split_result.status # "Ok"
            THEN Result("MintError", <<"split">>, total_outputs, <<>>, <<>>)
        ELSE Result("Ok", <<"split">>, total_outputs, first_tokens, second_tokens)

\* the answers of a mint to a melt request
MeltResponses ==
    {[status |-> "Ok", paid |-> TRUE], [status |-> "Ok", paid |-> FALSE],
     [status |-> "MintError", paid |-> FALSE]}

\* a melt_token that leaves the melted proofs in the localstore
melt_token_keep(proofs, held, melt_response, stop) ==
    IF stop.at = "post_melt"
        THEN [status |-> StopStatus(stop, "ReqwestError"), store |-> held, paid |-> FALSE]
    ELSE IF melt_response.status # "Ok"
        THEN [status |-> "MintError", store |-> held, paid |-> FALSE]
    ELSE [status |-> "Ok", store |-> held, paid |-> melt_response.paid]

\* Wallet::melt_token on the localstore held: the proofs are deleted after
\* any answer that is not an error
melt_token(proofs, held, melt_response, stop) ==
    IF stop.at = "post_melt"
        THEN [status |-> StopStatus(stop, "ReqwestError"), store |-> held, paid |-> FALSE]
    ELSE IF melt_response.status # "Ok"
        THEN [status |-> "MintError", store |-> held, paid |-> FALSE]
    ELSE IF stop.at = "delete_melted"
        THEN [status |-> StopStatus(stop, "LocalStoreError"), store |-> held,
              paid |-> melt_response.paid]
    ELSE [status |-> "Ok", store |-> delete_proofs(proofs, held),
          paid |-> melt_response.paid]

\* a target amount that leaves the fee of the quote out
ln_amount_without_fee(invoice, fee) == invoice.amount_msat \div MsatPerSat

\* Wallet::get_invoice_amount plus the fee of the quote, in sat
ln_amount_of(invoice, fee) == (invoice.amount_msat \div MsatPerSat) + (fee \div MsatPerSat)

\* Wallet::pay_invoice(invoice)
pay_invoice(invoice, store, fee, fault, melt_response, stop, checked) ==
    LET all_proofs      == store
        ln_amount       == ln_amount_of(invoice, fee)
        selection       == get_proofs_for_amount(ln_amount, store,
                               IF stop.at = "get_proofs_for_amount" THEN "db_read"
                                                                    ELSE "none")
        selected_proofs == selection.proofs
        selected_tokens == TokenV3(MintUrl, selected_proofs)
        needs_split     == total_amount(selected_proofs) > ln_amount
        split_result    == split_tokens(selected_tokens, ln_amount, store, fault, stop, checked)
        deleted         == delete_proofs(selected_proofs, store)
        added           == add_proofs(token_proofs(split_result.first), deleted)
        held            == IF needs_split THEN added ELSE store
        change          == IF needs_split THEN split_result.first ELSE <<>>
        outputs         == IF needs_split THEN split_result.outputs ELSE <<>>
        total_proofs    == IF needs_split THEN token_proofs(split_result.second)
                                          ELSE selected_proofs
        to_split        == <<"checkfees">> \o (IF needs_split THEN <<"split">> ELSE <<>>)
        melted          == melt_token(total_proofs, held, melt_response, stop)
        Early(status, sent) ==
            WalletOp("pay_invoice", [invoice |-> invoice, fee |-> fee], 0, status, store,
                     store, sent, <<>>, <<>>, <<>>, <<>>, FALSE)
        Result(status, after, sent, first, second, paid) ==
            WalletOp("pay_invoice", [invoice |-> invoice, fee |-> fee], ln_amount, status,
                     store, after, sent, selected_proofs, outputs, first, second, paid)
    IN  IF stop.at = "get_proofs" THEN Early(StopStatus(stop, "LocalStoreError"), <<>>)
        ELSE IF stop.at = "post_checkfees"
            THEN Early(StopStatus(stop, "ReqwestError"), <<"checkfees">>)
        ELSE IF ~invoice.decodes THEN Early("DecodeInvoice", <<"checkfees">>)
        ELSE IF invoice.amount_msat = NoAmount THEN Early("InvalidInvoice", <<"checkfees">>)
        ELSE IF ln_amount > total_amount(all_proofs)
            THEN Result("NotEnoughTokens", store, <<"checkfees">>, <<>>, <<>>, FALSE)
        ELSE IF selection.status # "Ok"
            THEN Result(StopStatus(stop, selection.status), store, <<"checkfees">>,
                        <<>>, <<>>, FALSE)
        ELSE IF needs_split /\ split_result.status # "Ok"
            THEN Result(split_result.status, store, <<"checkfees">> \o split_result.sent,
                        <<>>, <<>>, FALSE)
        ELSE IF needs_split /\ stop.at = "delete_selected"
            THEN Result(StopStatus(stop, "LocalStoreError"), store, to_split,
                        change, <<>>, FALSE)
        ELSE IF needs_split /\ stop.at = "add_change"
            THEN Result(StopStatus(stop, "LocalStoreError"), deleted, to_split,
                        change, <<>>, FALSE)
        ELSE Result(melted.status, melted.store, to_split \o <<"melt">>,
                    change, TokenV3(MintUrl, total_proofs), melted.paid)

\* the suspension points of pay_invoice
PayStops ==
    Stops({"get_proofs", "post_checkfees", "get_proofs_for_amount", "post_split",
           "delete_selected", "add_change", "post_melt", "delete_melted"})

\* Wallet::split_tokens is called on proofs of the localstore and returns
SplitTokens ==
    /\ wallet_res = NoWalletRes
    /\ \E k \in 0..Len(localstore), fault \in Faults, stop \in Stops({"post_split"}),
          checked \in BOOLEAN :
          LET tokens == TokenV3(MintUrl, SubSeq(localstore, 1, k))
          IN  \E splt_amount \in 0..(token_total_amount(tokens) + 1) :
                  wallet_res' = split_tokens(tokens, splt_amount, localstore, fault,
                                             stop, checked)
    /\ UNCHANGED <<used, req, res, inflight, retry, issueVars, localstore>>

\* Wallet::pay_invoice is called and returns, fails, or is dropped
PayInvoice ==
    /\ wallet_res = NoWalletRes
    /\ \E invoice \in Invoices, fee \in FeesMsat, fault \in Faults,
          melt_response \in MeltResponses, stop \in PayStops, checked \in BOOLEAN :
          /\ wallet_res' = pay_invoice(invoice, localstore, fee, fault, melt_response,
                                       stop, checked)
          /\ localstore' = wallet_res'.store
    /\ UNCHANGED <<used, req, res, inflight, retry, issueVars>>

\* the proofs of a token of total T the wallet is handed, one for each amount
\* of split_amount(T)
ReceivedProofs(T) ==
    [i \in DOMAIN split_amount(T) |->
        Proof(split_amount(T)[i], i, ValidC(split_amount(T)[i], i))]

\* Wallet::split_tokens is called on a token the wallet was handed and returns
SplitReceivedTokens ==
    /\ wallet_res = NoWalletRes
    /\ \E T \in 0..MaxTotal, fault \in Faults, stop \in Stops({"post_split"}),
          checked \in BOOLEAN :
          \E splt_amount \in 0..T :
              wallet_res' = split_tokens(TokenV3(MintUrl, ReceivedProofs(T)), splt_amount,
                                         localstore, fault, stop, checked)
    /\ UNCHANGED <<used, req, res, inflight, retry, issueVars, localstore>>

NextSplit == SplitReceivedTokens \/ WalletReturn

SpecSplit == Init /\ [][NextSplit]_vars

NextWalletOps == WalletMintTokens \/ SplitTokens \/ PayInvoice \/ WalletReturn

SpecWalletOps == Init /\ [][NextWalletOps]_vars

\* ------------------------------------------------------------------ claims
ProofSet(r) == {r.proofs[i] : i \in DOMAIN r.proofs}

\* the handler of the received request has just run
Handled == req # NoReq /\ res = NoRes /\ res' # NoRes

Answered == req # NoReq /\ res # NoRes

Accepted == Answered /\ res.status = "Ok"

NothingIssued(r) == r.fst = <<>> /\ r.snd = <<>> /\ ~r.paid

\* C1 as stated: every request that contains a proof of the used set fails with
\* ProofAlreadyUsed, issues no signatures and pays no invoice (a failure of the
\* database read itself set aside).
C1_Original ==
    [][(Handled /\ ProofSet(req) \cap used # {} /\ res'.status # "DbError")
          => (res'.status = "ProofAlreadyUsed" /\ NothingIssued(res'))]_vars

MeltFailsEarlier(r) ==
    /\ r.op = "melt"
    /\ \/ ~r.pr.decodes /\ res'.status = "DecodeInvoice"
       \/ r.pr.decodes /\ get_total_amount(r.proofs) >= Modulus /\ res'.status = "panic"

\* C1 amended: a successful split or melt puts its input proofs into the used
\* set, the used set never loses a proof, and every request that contains a
\* proof of the used set fails, issues no signatures, pays no invoice and leaves
\* the used set alone; the failure is ProofAlreadyUsed unless the request failed
\* before the check (melt: undecodable invoice, or overflowing proof sum in a
\* build with overflow checks) or the read of the used proofs failed.
C1_NoDoubleSpend ==
    [][/\ used \subseteq used'
       /\ (Handled /\ res'.status = "Ok") => ProofSet(req) \subseteq used'
       /\ (Handled /\ ProofSet(req) \cap used # {})
             => /\ res'.status # "Ok"
                /\ NothingIssued(res')
                /\ used' = used
                /\ \/ res'.status \in {"ProofAlreadyUsed", "DbError"}
                   \/ MeltFailsEarlier(req)]_vars

\* a request with a proof of the used set was refused as already used
C1_Witness ==
    /\ Answered
    /\ ProofSet(req) \cap used # {}
    /\ res.status = "ProofAlreadyUsed"

SameSecretOnly(r, u) ==
    /\ \E i \in DOMAIN r.proofs : \E q \in u : r.proofs[i].secret = q.secret
    /\ ProofSet(r) \cap u = {}

C2_AtMostOneSucceeds ==
    \A p, q \in Procs :
        (/\ p # q
         /\ inflight[p].pc = "done" /\ inflight[p].status = "Ok"
         /\ inflight[q].pc = "done" /\ inflight[q].status = "Ok")
            => ProofSet(inflight[p].r) \cap ProofSet(inflight[q].r) = {}

NoDuplicates(ps) == \A i, j \in DOMAIN ps : ps[i] = ps[j] => i = j

\* C4: a split or melt request whose proofs contain the same proof more than
\* once is rejected: it is not accepted, signs nothing and pays nothing.
C4_DuplicatesRejected ==
    (Answered /\ ~NoDuplicates(req.proofs)) => (res.status # "Ok" /\ NothingIssued(res))

\* C5: a split or melt request is accepted only if every input proof verifies
\* (C = k * H(secret) for the private key k of the proof's amount).
C5_OnlyVerifiedProofs ==
    Accepted => \A i \in DOMAIN req.proofs : Verifies(req.proofs[i])

\* C6: for every accepted split the amounts of the two returned signature
\* batches add up to the amounts of the input proofs.
C6_SplitConservation ==
    (Accepted /\ req.op = "split")
        => get_amount(res.fst) + get_amount(res.snd) = get_total_amount(req.proofs)

\* the request got as far as the amount checks of split
PastUsedCheck == Answered /\ res.status \notin {"ProofAlreadyUsed", "DbError"}

\* C7: a split whose amount exceeds the sum of its input proofs fails with the
\* error SplitAmountTooHigh, signs nothing and leaves the used set unchanged.
C7_SplitAmountTooHigh ==
    (/\ PastUsedCheck
     /\ req.op = "split"
     /\ req.amount > get_total_amount(req.proofs))
        => (res.status = "SplitAmountTooHigh" /\ NothingIssued(res))

WellFormedOutputs(r) ==
    LET S   == get_total_amount(r.proofs)
        fst == split_amount(S - r.amount)
    IN  /\ r.amount <= S
        /\ Len(r.outputs) >= Len(fst)
        /\ AmountsOf(SubSeq(r.outputs, 1, Len(fst))) = fst
        /\ AmountsOf(SubSeq(r.outputs, Len(fst) + 1, Len(r.outputs))) = split_amount(r.amount)

\* distinct verifying input proofs, and no u64 sum of the request overflows
Regular(r) ==
    /\ NoDuplicates(r.proofs)
    /\ \A i \in DOMAIN r.proofs : Verifies(r.proofs[i])
    /\ get_total_amount(r.proofs) < Modulus
    /\ Sum(AmountsOf(r.outputs)) < Modulus

\* C8: split accepts a request only if its outputs are split_amount(S - amount)
\* followed by split_amount(amount); outputs whose amounts merely add up to S
\* are not accepted.
C8_OutputsValidated ==
    (Accepted /\ req.op = "split" /\ Regular(req)) => WellFormedOutputs(req)

\* C9: for every accepted split the first returned batch (snd) totals amount
\* and the second (fst) totals S - amount.
C9_SplitReturnsAmount ==
    (Accepted /\ req.op = "split" /\ Regular(req))
        => /\ get_amount(res.snd) = req.amount
           /\ get_amount(res.fst) = get_total_amount(req.proofs) - req.amount

\* the invoice asks for more satoshis than the proofs are worth
ProofsBelowInvoice(r) ==
    /\ r.op = "melt"
    /\ r.pr.decodes
    /\ r.pr.amount_msat # NoAmount
    /\ r.pr.amount_msat \div MsatPerSat > get_total_amount(r.proofs)

\* C10: a melt whose proofs do not cover the invoice (amount_sat > P) fails with
\* InvoiceAmountTooLow, marks no proof used and pays no invoice.
C10_ProofsCoverInvoice ==
    (/\ PastUsedCheck
     /\ ProofsBelowInvoice(req))
        => (res.status = "InvoiceAmountTooLow" /\ ~res.paid)

\* C16: a melt on an invoice that decodes but carries no amount fails with the
\* error InvoiceMissingAmount, rather than crashing, and pays nothing.
C16_InvoiceMissingAmount ==
    (/\ PastUsedCheck
     /\ req.op = "melt"
     /\ req.pr.decodes
     /\ req.pr.amount_msat = NoAmount
     /\ get_total_amount(req.proofs) < Modulus)
        => (res.status = "InvoiceMissingAmount" /\ ~res.paid)

\* C11 as stated: the retry of a melt whose pay_invoice call failed fails with
\* ProofAlreadyUsed (a failure of the database read itself set aside).
C11_Original ==
    (Answered /\ retry /\ res.status # "DbError") => res.status = "ProofAlreadyUsed"

\* C11: when pay_invoice fails inside melt, melt returns the error and its
\* proofs are in the used set and stay there; the retry of the same melt, when
\* it carries at least one proof, is refused (ProofAlreadyUsed, or the database
\* error of a failing read), pays nothing and leaves the used set as it is.
C11_PayFailureKeepsProofsUsed ==
    /\ (Answered /\ res.status = "PayInvoice") => (ProofSet(req) \subseteq used /\ ~res.paid)
    /\ retry => ProofSet(req) \subseteq used
    /\ (Answered /\ retry /\ req.proofs # <<>>)
          => (res.status \in {"ProofAlreadyUsed", "DbError"} /\ NothingIssued(res))

\* a melt whose payment failed has been sent again and was refused
C11_Witness ==
    Answered /\ retry /\ req.proofs # <<>> /\ res.status = "ProofAlreadyUsed"

\* the payment request filed under the hash of the request
PendingRequest(r) == get_pending_invoice(r.hash, pending).payment_request

\* C12: a mint_tokens call whose hash has no pending invoice fails with
\* InvoiceNotFound (a failure of the database read itself set aside), signs
\* nothing and changes nothing; a call that returns signatures found the record
\* and removed it, and a key once taken out of the table never returns to it:
\* the outputs of an invoice are signed once.
C12_InvoiceNotFound ==
    [][/\ (Handled /\ req.op = "mint_tokens" /\ req.hash \notin PendingKeys(pending))
            => /\ res'.status \in {"InvoiceNotFound", "DbError"}
               /\ NothingIssued(res')
               /\ pending' = pending
       /\ (Handled /\ req.op = "mint_tokens" /\ res'.fst # <<>>)
            => /\ req.hash \in PendingKeys(pending)
               /\ PendingRequest(req) \in ln_paid
               /\ req.hash \notin PendingKeys(pending')
       /\ \A key \in 1 .. issued :
            key \notin PendingKeys(pending) => key \notin PendingKeys(pending')]_vars

\* a mint_tokens call for an invoice that was created and paid, and whose
\* record is gone, has been answered InvoiceNotFound
C12_Witness ==
    /\ Answered
    /\ req.op = "mint_tokens"
    /\ req.hash \in ln_paid
    /\ req.hash \notin PendingKeys(pending)
    /\ res.status = "InvoiceNotFound"

\* mint_tokens has just run on a hash that has a pending invoice
Polled == Handled /\ req.op = "mint_tokens" /\ req.hash \in PendingKeys(pending)

\* C13: when the backend reports the invoice of the hash as not paid,
\* mint_tokens returns Ok with no signatures and leaves the pending table as it
\* is; mint_tokens changes the table only by removing the record of its hash,
\* and only when the backend holds the invoice as paid, not when the status
\* query fails; the poll that succeeds on a paid invoice signs every output.
C13_PollUntilPaid ==
    [][/\ (/\ Polled
           /\ PendingRequest(req) \notin ln_paid
           /\ res'.status \notin {"DbError", "LightningError"})
            => (res'.status = "Ok" /\ res'.fst = <<>> /\ pending' = pending)
       /\ (Handled /\ req.op = "mint_tokens" /\ pending' # pending)
            => /\ req.hash \in PendingKeys(pending)
               /\ PendingRequest(req) \in ln_paid
               /\ pending' = remove_pending_invoice(req.hash, pending)
       /\ (Handled /\ req.op = "mint_tokens" /\ res'.status = "LightningError")
            => pending' = pending
       /\ (Polled /\ PendingRequest(req) \in ln_paid /\ res'.status = "Ok")
            => /\ res'.fst = create_blinded_signatures(req.outputs)
               /\ req.hash \notin PendingKeys(pending')]_vars

\* a poll with outputs on an unpaid invoice has been answered with the empty
\* sequence and the record is still there
C13_Witness ==
    /\ Answered
    /\ req.op = "mint_tokens"
    /\ req.outputs # <<>>
    /\ req.hash \in PendingKeys(pending)
    /\ PendingRequest(req) \notin ln_paid
    /\ res.status = "Ok"
    /\ res.fst = <<>>

\* C15: a mint_tokens or split request with an output whose amount is no
\* denomination of the keyset is answered with an error value, never by a
\* crash of the handler, and returns no signatures.
C15_UnknownDenomination ==
    (/\ Answered
     /\ req.op \in {"mint_tokens", "split"}
     /\ ~can_sign(req.outputs))
        => (res.status # "panic" /\ NothingIssued(res))

\* create_invoice has just run
Created == Handled /\ req.op = "create_invoice"

\* C17: a create_invoice that succeeds adds exactly one record to the pending
\* table, under the returned key, a key the table did not hold, with the
\* requested amount and the returned payment request; a create_invoice that
\* fails, because the backend did not create the invoice or for any other
\* reason, leaves the table as it was.
C17_CreateInvoice ==
    [][/\ (Created /\ res'.status = "Ok")
            => /\ res'.key \notin PendingKeys(pending)
               /\ pending' = pending \cup
                     {[key |-> res'.key,
                       invoice |-> Invoice(req.amount, res'.payment_request)]}
       /\ (Created /\ res'.status # "Ok") => pending' = pending
       /\ (Created /\ issued' = issued)
            => (res'.status \in {"LightningError", "panic"} /\ pending' = pending)]_vars

\* a create_invoice has succeeded and its record is in the table
C17_Witness ==
    /\ Answered
    /\ req.op = "create_invoice"
    /\ res.status = "Ok"
    /\ [key |-> res.key, invoice |-> Invoice(req.amount, res.payment_request)] \in pending

\* C14: of the concurrent mint_tokens requests that carry the same invoice hash
\* at most one returns signatures.
C14_SignedOnce ==
    \A p, q \in Procs :
        (/\ p # q
         /\ inflight[p].pc = "done" /\ inflight[p].sigs # <<>>
         /\ inflight[q].pc = "done" /\ inflight[q].sigs # <<>>)
            => inflight[p].r.hash # inflight[q].r.hash

\* C18: no step of the mint (create_invoice, mint_tokens, split, melt,
\* check_used_proofs, succeeding or failing) takes a proof out of the used
\* set: every proof once in it is in it in every later state.
C18_UsedGrowsMonotonically == [][used \subseteq used']_vars

\* a check_used_proofs call run after the proof was spent still finds it
C18_Witness ==
    /\ Answered
    /\ req.op = "check_used_proofs"
    /\ ProofSet(req) \cap used # {}
    /\ res.status = "ProofAlreadyUsed"

\* get_proofs_for_amount has just been called and has returned
Selected == wallet_res = NoWalletRes /\ wallet_res'.op = "get_proofs_for_amount"

\* the proofs of ps are proofs of the store, each taken once
TakenFrom(ps, store) ==
    /\ \A i \in DOMAIN ps : \E j \in DOMAIN store : ps[i] = store[j]
    /\ \A i, j \in DOMAIN ps : ps[i] = ps[j] => i = j

\* C19: get_proofs_for_amount(a) leaves the localstore as it is; when the
\* balance is at least a it returns proofs of the localstore whose total is at
\* least a, and when a exceeds the balance it fails with NotEnoughTokens (a
\* failure of the localstore read itself set aside).
C19_EnoughOrNotEnoughTokens ==
    [][Selected =>
        /\ localstore' = localstore
        /\ wallet_res'.status # "LocalStoreError" =>
              IF wallet_res'.amount <= total_amount(localstore)
              THEN /\ wallet_res'.status = "Ok"
                   /\ TakenFrom(wallet_res'.proofs, localstore)
                   /\ total_amount(wallet_res'.proofs) >= wallet_res'.amount
              ELSE /\ wallet_res'.status = "NotEnoughTokens"
                   /\ wallet_res'.proofs = <<>>]_vars

\* a selection from a store with more than it needs has returned
C19_Witness ==
    /\ wallet_res.op = "get_proofs_for_amount"
    /\ wallet_res.status = "Ok"
    /\ wallet_res.amount > 0
    /\ Len(wallet_res.proofs) < Len(localstore)
    /\ total_amount(wallet_res.proofs) >= wallet_res.amount

\* the amounts of the store from the largest to the smallest
RECURSIVE DescendingAmounts(_)
DescendingAmounts(store) ==
    IF store = <<>> THEN <<>>
    ELSE LET i == CHOOSE i \in DOMAIN store :
                    \A j \in DOMAIN store : store[j].amount <= store[i].amount
         IN  <<store[i].amount>> \o
             DescendingAmounts(SubSeq(store, 1, i - 1) \o SubSeq(store, i + 1, Len(store)))

\* C20: the amounts of the proofs get_proofs_for_amount returns are the
\* shortest prefix of the store's amounts in descending order whose total
\* reaches the amount: the total is at least the amount, and without the last
\* selected proof it is below it.
C20_GreedyLargestFirst ==
    (wallet_res.op = "get_proofs_for_amount" /\ wallet_res.status = "Ok")
        => LET got == AmountsOf(wallet_res.proofs)
               n   == Len(got)
           IN  /\ TakenFrom(wallet_res.proofs, localstore)
               /\ got = SubSeq(DescendingAmounts(localstore), 1, n)
               /\ Sum(got) >= wallet_res.amount
               /\ n > 0 => Sum(SubSeq(got, 1, n - 1)) < wallet_res.amount

\* the store holds 4, 8, 16 and 32, the amount 10 was asked for and the
\* single proof of 32 was returned
C20_Witness ==
    /\ Len(localstore) = 4
    /\ {localstore[i].amount : i \in DOMAIN localstore} = {4, 8, 16, 32}
    /\ wallet_res.op = "get_proofs_for_amount"
    /\ wallet_res.amount = 10
    /\ wallet_res.status = "Ok"
    /\ AmountsOf(wallet_res.proofs) = <<32>>

\* melt got as far as its pay_invoice call: it returns Ok or the call's error
PayIssued(r) == r.status \in {"Ok", "PayInvoice"}

\* C28: melt calls pay_invoice only after the invoice decoded, the used-proof
\* read found none of the proofs, the invoice carried an amount that passed the
\* amount check, and the proofs were inserted into the used set; a melt that
\* stopped at any of these has paid nothing.
C28_MeltCallOrder ==
    [][/\ (Handled /\ req.op = "melt" /\ PayIssued(res'))
            => /\ req.pr.decodes
               /\ ~check_used_proofs(req.proofs, used)
               /\ req.pr.amount_msat # NoAmount
               /\ ~(req.pr.amount_msat <
                       (get_total_amount(req.proofs) % Modulus) \div MsatPerSat)
               /\ used' = add_used_proofs(req.proofs, used)
       /\ (Handled /\ req.op = "melt" /\ ~PayIssued(res'))
            => (~res'.paid /\ used' = used)]_vars

\* a melt has inserted its proof and then failed in pay_invoice
C28_Witness ==
    /\ Answered
    /\ req.op = "melt"
    /\ req.proofs # <<>>
    /\ res.status = "PayInvoice"
    /\ ProofSet(req) \subseteq used

\* C29: a split that returns an error leaves the used set as it was and
\* returns no signatures, so the insert is its last step; split and melt never
\* change the pending-invoice table.
C29_SplitInsertsLast ==
    [][/\ (Handled /\ req.op = "split" /\ res'.status # "Ok")
            => (used' = used /\ NothingIssued(res'))
       /\ (Handled /\ req.op = "split" /\ res'.status = "Ok")
            => used' = add_used_proofs(req.proofs, used)
       /\ (Handled /\ req.op \in {"split", "melt"}) => pending' = pending]_vars

\* a split with a proof has failed on the sums while an invoice is pending
C29_Witness ==
    /\ Answered
    /\ req.op = "split"
    /\ req.proofs # <<>>
    /\ res.status = "SplitAmountMismatch"
    /\ ProofSet(req) \cap used = {}
    /\ pending # {}

\* C30: a mint_tokens call that signs for a pending invoice returns signatures
\* whose amounts sum to at most the amount recorded in that invoice.
C30_IssuedWithinPaid ==
    [][(Polled /\ res'.status = "Ok")
            => get_amount(res'.fst) <= get_pending_invoice(req.hash, pending).amount]_vars

\* the client has turned a response whose body it could read into its result
Extracted == wallet_res.op = "extract_response_data" /\ wallet_res.status # "ReqwestError"

\* the response is marked as JSON and its body is a well-formed error record
JsonError(response) ==
    response.content_type = "application/json" /\ response.body.kind = "error"

\* C27: for a non-200 response the client returns an error value and never
\* crashes: a JSON error record with the string 'Lightning invoice not paid
\* yet.' gives InvoiceNotPaidYet, any other JSON error record gives MintError
\* with the mint's string, anything else gives UnexpectedResponse; a 200
\* response whose body does not parse gives UnexpectedResponse.
C27_ErrorMapping ==
    Extracted =>
        LET response == wallet_res.response
        IN  IF response.status = 200
            THEN response.body.kind # "data" => wallet_res.status = "UnexpectedResponse"
            ELSE IF JsonError(response)
            THEN IF response.body.error = NotPaidYet
                 THEN wallet_res.status = "InvoiceNotPaidYet"
                 ELSE /\ wallet_res.status = "MintError"
                      /\ wallet_res.error = response.body.error
            ELSE wallet_res.status = "UnexpectedResponse"

\* a wallet operation has run to its end and returned Ok
Returned(op) == wallet_res.op = op /\ wallet_res.status = "Ok"

\* C21: whenever Wallet::mint_tokens(amount, hash) returns Ok, the returned
\* token totals the requested amount, has a single entry tagged with the
\* wallet's mint URL, and exactly its proofs were added to the localstore,
\* whatever the mint answered
C21_MintedAmount ==
    Returned("mint_tokens") =>
        /\ token_total_amount(wallet_res.first) = wallet_res.amount
        /\ Len(wallet_res.first) = 1
        /\ wallet_res.first[1].mint = MintUrl
        /\ localstore = wallet_res.before \o token_proofs(wallet_res.first)

\* the call of Wallet::pay_invoice that has just ended, on an invoice that
\* names an amount
Paying ==
    /\ wallet_res.op = "pay_invoice"
    /\ wallet_res.arg.invoice.decodes
    /\ wallet_res.arg.invoice.amount_msat # NoAmount

\* the target amount A = invoice_amount_sat + fee/1000 of that call
TargetAmount ==
    (wallet_res.arg.invoice.amount_msat \div 1000) + (wallet_res.arg.fee \div 1000)

\* what pay_invoice sent to the mint
Sent(request) == \E i \in DOMAIN wallet_res.sent : wallet_res.sent[i] = request

\* C22: pay_invoice fails when the target amount A = invoice_amount_sat +
\* fee/1000 exceeds the balance of the localstore; it then sends no split and
\* no melt request and leaves the localstore unchanged
C22_NotEnoughTokens ==
    (Paying /\ TargetAmount > total_amount(wallet_res.before)) =>
        /\ wallet_res.status # "Ok"
        /\ ~Sent("split") /\ ~Sent("melt")
        /\ localstore = wallet_res.before

\* C22 witness: a wallet that holds proofs is asked to pay more than it has
\* and answers NotEnoughTokens
C22_Witness ==
    /\ Paying /\ TargetAmount > total_amount(wallet_res.before)
    /\ wallet_res.before # <<>>
    /\ wallet_res.status = "NotEnoughTokens"

\* the proofs of a sequence, as a set
Held(proofs) == {proofs[i] : i \in DOMAIN proofs}

\* C23: after a pay_invoice that returns Ok with paid = true the localstore
\* holds none of the selected proofs, holds the change proofs of the
\* pre-melt split, still holds every proof that was not selected, and its
\* balance dropped by exactly A
C23_PaidStore ==
    (Paying /\ wallet_res.status = "Ok" /\ wallet_res.paid) =>
        /\ Held(wallet_res.selected) \cap Held(localstore) = {}
        /\ Held(token_proofs(wallet_res.first)) \subseteq Held(localstore)
        /\ Held(wallet_res.before) \ Held(wallet_res.selected) \subseteq Held(localstore)
        /\ total_amount(localstore) = total_amount(wallet_res.before) - TargetAmount

\* C23 witness: a paid invoice whose payment needed a split and left a proof
\* of the localstore unselected
C23_Witness ==
    /\ Paying /\ wallet_res.status = "Ok" /\ wallet_res.paid
    /\ Sent("split")
    /\ token_proofs(wallet_res.first) # <<>>
    /\ Held(wallet_res.before) \ Held(wallet_res.selected) # {}

\* the call of Wallet::split_tokens that has just ended, on a split amount
\* within the total of its tokens
Splitting ==
    /\ wallet_res.op = "split_tokens"
    /\ wallet_res.amount <= token_total_amount(wallet_res.arg)

\* the proof the wallet gets from the mint's signature of output i: the
\* amount of the output, the secret blinded in it, and a signature that
\* verifies
Unblinded(i) ==
    LET output == wallet_res.outputs[i]
    IN  Proof(output.amount, output.b_[1], ValidC(output.amount, output.b_[1]))

\* C24: split_tokens(tokens, split_amt) with T = tokens.total_amount and
\* split_amt <= T sends the outputs of split_amount(T - split_amt) followed
\* by those of split_amount(split_amt); when the mint signs the first
\* outputs as fst and the rest as snd, the proofs of the first token are the
\* unblinded signatures of the first outputs and those of the second token
\* the unblinded signatures of the second outputs, position by position, so
\* the first token totals T - split_amt and the second split_amt
C24_SplitLayout ==
    Splitting =>
        LET T      == token_total_amount(wallet_res.arg)
            first  == split_amount(T - wallet_res.amount)
            second == split_amount(wallet_res.amount)
            fst    == token_proofs(wallet_res.first)
            snd    == token_proofs(wallet_res.second)
        IN  /\ Sent("split")
            /\ AmountsOf(wallet_res.outputs) = first \o second
            /\ wallet_res.status = "Ok" =>
                  /\ fst = [i \in 1..Len(first) |-> Unblinded(i)]
                  /\ snd = [j \in 1..Len(second) |-> Unblinded(Len(first) + j)]
                  /\ token_total_amount(wallet_res.first) = T - wallet_res.amount
                  /\ token_total_amount(wallet_res.second) = wallet_res.amount

\* C24 witness: a split that returns two proofs in the first token and one
\* in the second
C24_Witness ==
    /\ Splitting /\ wallet_res.status = "Ok"
    /\ Len(token_proofs(wallet_res.first)) >= 2
    /\ token_proofs(wallet_res.second) # <<>>

\* C25: a pay_invoice that fails or is dropped at one of its suspension
\* points has committed nothing: the localstore holds the same proofs as
\* before the call
C25_NothingCommitted ==
    (wallet_res.op = "pay_invoice" /\ wallet_res.status # "Ok") =>
        Held(localstore) = Held(wallet_res.before)

\* C26: the proofs sent to melt are removed from the localstore when the
\* melt response reports paid = true, and are still in the localstore when
\* the melt request fails or the response reports paid = false
C26_DeleteOnSuccess ==
    (wallet_res.op = "pay_invoice" /\ Sent("melt")) =>
        LET melted == Held(token_proofs(wallet_res.second))
        IN  IF wallet_res.status = "Ok" /\ wallet_res.paid
            THEN melted \cap Held(localstore) = {}
            ELSE melted \subseteq Held(localstore)

\* the split request of the call of Wallet::split_tokens that has just ended
SplitRequest ==
    [op |-> "split", amount |-> wallet_res.amount,
     proofs |-> token_proofs(wallet_res.arg), outputs |-> wallet_res.outputs,
     pr |-> NoInvoice, hash |-> NoHash]

\* C31: for every token total T and every split_amt <= T, Mint::split slices
\* the outputs that Wallet::split_tokens sends at the index
\* len(split_amount(T - split_amt)) into the wallet's first outputs, those of
\* split_amount(T - split_amt), and its second outputs, those of
\* split_amount(split_amt); the mint's sum check passes and the wallet's
\* InvalidProofs check does not fire
C31_SplitWireLayout ==
    Splitting =>
        LET T      == token_total_amount(wallet_res.arg)
            first  == split_amount(T - wallet_res.amount)
            second == split_amount(wallet_res.amount)
            n      == Len(wallet_res.outputs)
        IN  /\ wallet_res.status # "InvalidProofs"
            /\ Sent("split")
            /\ \A checked \in BOOLEAN :
                  LET answer == split(SplitRequest, {}, "none", checked)
                  IN  /\ answer.status = "Ok"
                      /\ answer.fst = create_blinded_signatures(
                                          SubSeq(wallet_res.outputs, 1, Len(first)))
                      /\ answer.snd = create_blinded_signatures(
                                          SubSeq(wallet_res.outputs, Len(first) + 1, n))
                      /\ AmountsOf(answer.fst) = first
                      /\ AmountsOf(answer.snd) = second

\* C31 witness: a split whose two halves differ in length has been sent and
\* answered
C31_Witness ==
    /\ Splitting /\ wallet_res.status = "Ok"
    /\ wallet_res.amount > 0
    /\ Len(split_amount(token_total_amount(wallet_res.arg) - wallet_res.amount))
           > Len(split_amount(wallet_res.amount))

====
